---------------------------- MODULE Spec2Model ----------------------------
(***************************************************************************)
(* RouteRadar: the live style document of the map (sources + ordered       *)
(* layers), the tile URL builder, and the event handlers of main.js that   *)
(* mutate the document at runtime.                                         *)
(*                                                                         *)
(* Strings that the code builds or parses are sequences of one-character   *)
(* strings, so that percent-encoding, parsing and formatting are computed  *)
(* and not assumed.  Numbers with decimals (opacities) are integers in     *)
(* hundredths: 0.8 is 80.                                                  *)
(*                                                                         *)
(* The rendering engine (maplibre-gl) is outside the repository.  Its      *)
(* operations are modelled as the plain store the handlers are written     *)
(* against: each operation performs its mutation, and a request the style  *)
(* cannot satisfy (removing something absent, adding something present,    *)
(* adding a layer whose source or anchor is missing, removing a source     *)
(* that a layer still uses, painting a missing layer) is recorded in       *)
(* styleError.                                                             *)
(***************************************************************************)
EXTENDS Integers, Sequences, FiniteSets, TLC

VARIABLES
    sources,    \* style.sources: source id -> source record (present ids only)
    layers,     \* style.layers: sequence of layer records, bottom to top
    dom,        \* the controls main.js reads: checked / value / textContent
    pc,         \* position inside the running handler; "idle" between events
    url,        \* updateCogSource's local `url`
    styleError, \* the engine reported a style error
    calls,      \* engine mutations issued by the current (or last) handler
    lastEvent,  \* the event whose handler is running or ran last
    before,     \* [sources, layers] when that handler was entered
    fresh,      \* no control of the dynamic layer changed since the last reconfigure ended
    twice,      \* the running (or last) reconfigure was entered with fresh set
    absentToggle, \* "pending": the toggle changed while the layer was absent;
                  \* "materialized": a reconfigure has since created the layer
    view,       \* the map's viewport options: center, zoom, maxBounds
    call        \* the last call of a URL builder: [fn, args, result]

vars == <<sources, layers, dom, pc, url, styleError, calls, lastEvent,
          before, fresh, twice, absentToggle, view, call>>

-----------------------------------------------------------------------------
(* Characters and strings *)

Digits == <<"0", "1", "2", "3", "4", "5", "6", "7", "8", "9">>

HexDigits == Digits \o <<"A", "B", "C", "D", "E", "F">>

IsDigit(c) == \E i \in 1..10 : Digits[i] = c

DigitVal(c) == CHOOSE i \in 0..9 : Digits[i + 1] = c

\* Characters encodeURIComponent leaves alone: A-Z a-z 0-9 - _ . ! ~ * ' ( )
Unreserved ==
    {"a", "b", "c", "d", "e", "f", "g", "h", "i", "j", "k", "l", "m",
     "n", "o", "p", "q", "r", "s", "t", "u", "v", "w", "x", "y", "z",
     "A", "B", "C", "D", "E", "F", "G", "H", "I", "J", "K", "L", "M",
     "N", "O", "P", "Q", "R", "S", "T", "U", "V", "W", "X", "Y", "Z",
     "0", "1", "2", "3", "4", "5", "6", "7", "8", "9",
     "-", "_", ".", "!", "~", "*", "'", "(", ")"}

\* ASCII code of the reserved characters the model's inputs use.
CharCode(c) ==
    CASE c = " " -> 32
      [] c = "#" -> 35
      [] c = "%" -> 37
      [] c = "&" -> 38
      [] c = "+" -> 43
      [] c = "," -> 44
      [] c = "/" -> 47
      [] c = ":" -> 58
      [] c = "=" -> 61
      [] c = "?" -> 63
      [] c = "{" -> 123
      [] c = "}" -> 125

EncodeChar(c) ==
    IF c \in Unreserved
    THEN <<c>>
    ELSE <<"%", HexDigits[(CharCode(c) \div 16) + 1], HexDigits[(CharCode(c) % 16) + 1]>>

RECURSIVE encodeURIComponent(_)
encodeURIComponent(s) ==
    IF s = <<>> THEN <<>>
    ELSE EncodeChar(Head(s)) \o encodeURIComponent(Tail(s))

\* JavaScript truthiness of a string: only the empty string is falsy.
Truthy(s) == s # <<>>

\* The value parseFloat gives when the string starts with no number.
NaN == -1

\* Length of the longest prefix of s made of digits.
RECURSIVE DigitPrefix(_)
DigitPrefix(s) ==
    IF s # <<>> /\ IsDigit(Head(s)) THEN 1 + DigitPrefix(Tail(s)) ELSE 0

RECURSIVE DigitsValue(_, _)
DigitsValue(s, acc) ==
    IF s = <<>> THEN acc ELSE DigitsValue(Tail(s), 10 * acc + DigitVal(Head(s)))

\* parseFloat on an unsigned decimal literal, in hundredths (decimals past
\* the second are dropped): the longest numeric prefix is read, the rest of
\* the string is ignored, and a string with no numeric prefix gives NaN.
parseFloat(s) ==
    LET n    == DigitPrefix(s)
        rest == SubSeq(s, n + 1, Len(s))
        m    == IF rest # <<>> /\ Head(rest) = "." THEN DigitPrefix(Tail(rest)) ELSE 0
        frac == IF m = 0 THEN <<>> ELSE SubSeq(rest, 2, 1 + m)
        f2   == SubSeq(frac \o <<"0", "0">>, 1, 2)
    IN  IF n = 0 /\ m = 0 THEN NaN
        ELSE 100 * DigitsValue(SubSeq(s, 1, n), 0) + DigitsValue(f2, 0)

RECURSIVE IntString(_)
IntString(n) ==
    IF n < 10 THEN <<Digits[n + 1]>>
    ELSE IntString(n \div 10) \o <<Digits[(n % 10) + 1]>>

\* Number.prototype.toFixed(2) of a non-negative value given in hundredths.
toFixed2(h) ==
    IntString(h \div 100) \o <<".", Digits[((h \div 10) % 10) + 1], Digits[(h % 10) + 1]>>

-----------------------------------------------------------------------------
(* TileURLBuilder: buildCogTileUrl *)

CogUrlBase ==
    <<"h", "t", "t", "p", ":", "/", "/", "l", "o", "c", "a", "l", "h", "o", "s", "t", ":", "8",
      "0", "8", "0", "/", "c", "o", "g", "/", "t", "i", "l", "e", "s", "/", "W", "e", "b", "M",
      "e", "r", "c", "a", "t", "o", "r", "Q", "u", "a", "d", "/", "{", "z", "}", "/", "{", "x",
      "}", "/", "{", "y", "}", ".", "p", "n", "g", "?", "u", "r", "l", "=", "/", "c", "o", "g",
      "s", "/", "l", "a", "u", "r", "e", "n", "t", "i", "d", "e", "s", "_", "m", "e", "r", "g",
      "e", "d", ".", "t", "i", "f">>

RescaleKey == <<"&", "r", "e", "s", "c", "a", "l", "e", "=">>

ColormapKey == <<"&", "c", "o", "l", "o", "r", "m", "a", "p", "_", "n", "a", "m", "e", "=">>

DefaultColormap == <<"c", "i", "v", "i", "d", "i", "s">>

DefaultRescale == <<"1", "0", "0", ",", "6", "0", "0">>

\* Mutant of Param: the default is lost, a missing property reads as empty.
Param_noDefault(opts, key, default) == IF key \in DOMAIN opts THEN opts[key] ELSE <<>>

\* A destructured parameter with a default: the default applies only when
\* the property is missing from the argument object (undefined).
Param(opts, key, default) == IF key \in DOMAIN opts THEN opts[key] ELSE default

\* The argument object {} : no properties.
NoOptions == [k \in {} |-> <<>>]

\* Mutant of RescalePart: a falsy rescale falls back to the default
\* (rescale || '100,600') instead of being left out.
RescalePart_defaulting(rescale) ==
    RescaleKey \o encodeURIComponent(IF Truthy(rescale) THEN rescale ELSE DefaultRescale)

\* Mutant of RescalePart: the value is appended as it is, not encoded.
RescalePart_raw(rescale) ==
    IF Truthy(rescale) THEN RescaleKey \o rescale ELSE <<>>

RescalePart(rescale) ==
    IF Truthy(rescale) THEN RescaleKey \o encodeURIComponent(rescale) ELSE <<>>

ColormapPart(colormap) ==
    IF Truthy(colormap) THEN ColormapKey \o encodeURIComponent(colormap) ELSE <<>>

buildCogTileUrl(opts) ==
    LET colormap == Param(opts, "colormap", DefaultColormap)
        rescale  == Param(opts, "rescale", DefaultRescale)
    IN  CogUrlBase \o RescalePart(rescale) \o ColormapPart(colormap)

CogCall(opts) ==
    [fn |-> "buildCogTileUrl", args |-> <<opts>>, result |-> buildCogTileUrl(opts)]

-----------------------------------------------------------------------------
(* TileURLBuilder: buildHRDEMWmsUrl.  Its arguments are JavaScript values  *)
(* of any type, tagged here with their type; a number is held as its       *)
(* decimal string.                                                         *)

Undefined == [t |-> "undefined"]

Null == [t |-> "null"]

JsNumber(s) == [t |-> "number", v |-> s]

JsString(s) == [t |-> "string", v |-> s]

JsArray(xs) == [t |-> "array", v |-> xs]

\* {min, max}
JsRange(min, max) == [t |-> "object", min |-> min, max |-> max]

\* String(x), as a template literal applies it: an array is its elements'
\* strings joined by commas.
RECURSIVE JsToString(_)
JsToString(x) ==
    CASE x.t = "number"    -> x.v
      [] x.t = "string"    -> x.v
      [] x.t = "undefined" -> <<"u", "n", "d", "e", "f", "i", "n", "e", "d">>
      [] x.t = "null"      -> <<"n", "u", "l", "l">>
      [] x.t = "array"     ->
            IF x.v = <<>> THEN <<>>
            ELSE IF Len(x.v) = 1 THEN JsToString(x.v[1])
            ELSE JsToString(x.v[1]) \o <<",">> \o JsToString(JsArray(Tail(x.v)))

\* if (x)
ToBoolean(x) ==
    CASE x.t \in {"undefined", "null"} -> FALSE
      [] x.t = "number"                -> x.v # <<"0">>
      [] x.t = "string"                -> x.v # <<>>
      [] OTHER                         -> TRUE

WmsUrlBase ==
    <<"h", "t", "t", "p", "s", ":", "/", "/", "d", "a", "t", "a", "c", "u", "b", "e", ".", "s",
      "e", "r", "v", "i", "c", "e", "s", ".", "g", "e", "o", ".", "c", "a", "/", "w", "r", "a",
      "p", "p", "e", "r", "/", "o", "g", "c", "/", "e", "l", "e", "v", "a", "t", "i", "o", "n",
      "-", "h", "r", "d", "e", "m", "-", "m", "o", "s", "a", "i", "c", "?", "S", "E", "R", "V",
      "I", "C", "E", "=", "W", "M", "S", "&", "V", "E", "R", "S", "I", "O", "N", "=", "1", ".",
      "3", ".", "0", "&", "R", "E", "Q", "U", "E", "S", "T", "=", "G", "e", "t", "M", "a", "p",
      "&", "L", "A", "Y", "E", "R", "S", "=", "d", "t", "m", "-", "s", "l", "o", "p", "e", "&",
      "S", "T", "Y", "L", "E", "S", "=", "s", "l", "o", "p", "e", "_", "g", "r", "e", "y", "&",
      "F", "O", "R", "M", "A", "T", "=", "i", "m", "a", "g", "e", "/", "p", "n", "g", "&", "T",
      "R", "A", "N", "S", "P", "A", "R", "E", "N", "T", "=", "T", "R", "U", "E", "&", "C", "R",
      "S", "=", "E", "P", "S", "G", ":", "3", "8", "5", "7", "&", "W", "I", "D", "T", "H", "=",
      "2", "5", "6", "&", "H", "E", "I", "G", "H", "T", "=", "2", "5", "6", "&", "B", "B", "O",
      "X", "=", "{", "b", "b", "o", "x", "-", "e", "p", "s", "g", "-", "3", "8", "5", "7", "}">>

ZFactorKey == <<"&", "z", "F", "a", "c", "t", "o", "r", "=">>

\* &rescaleNew<Min|Max><Red|Green|Blue>=
RescaleNewKey(bound, channel) ==
    <<"&", "r", "e", "s", "c", "a", "l", "e", "N", "e", "w">> \o bound \o channel \o <<"=">>

Min == <<"M", "i", "n">>

Max == <<"M", "a", "x">>

Red == <<"R", "e", "d">>

Green == <<"G", "r", "e", "e", "n">>

Blue == <<"B", "l", "u", "e">>

DefaultZFactor == JsNumber(<<"5">>)

WmsRescalePart(rescale) ==
    IF ToBoolean(rescale)
    THEN RescaleNewKey(Min, Red) \o JsToString(rescale.min)
           \o RescaleNewKey(Max, Red) \o JsToString(rescale.max)
           \o RescaleNewKey(Min, Green) \o JsToString(rescale.min)
           \o RescaleNewKey(Max, Green) \o JsToString(rescale.max)
           \o RescaleNewKey(Min, Blue) \o JsToString(rescale.min)
           \o RescaleNewKey(Max, Blue) \o JsToString(rescale.max)
    ELSE <<>>

\* buildHRDEMWmsUrl(zFactor = 5, rescale = null): a default applies when the
\* argument is undefined.
buildHRDEMWmsUrl(zFactorArg, rescaleArg) ==
    LET zFactor == IF zFactorArg = Undefined THEN DefaultZFactor ELSE zFactorArg
        rescale == IF rescaleArg = Undefined THEN Null ELSE rescaleArg
    IN  WmsUrlBase \o ZFactorKey \o JsToString(zFactor) \o WmsRescalePart(rescale)

WmsCall(zFactorArg, rescaleArg) ==
    [fn |-> "buildHRDEMWmsUrl", args |-> <<zFactorArg, rescaleArg>>,
     result |-> buildHRDEMWmsUrl(zFactorArg, rescaleArg)]

-----------------------------------------------------------------------------
(* The area of interest and the viewport.  Degrees are in hundredths.      *)

aoiBounds == << <<-7615, 4532>>, <<-7305, 4644>> >>

\* Mutant of center: the pair is written as [lat, lng].
center_latLng == <<4603, -7419>>

\* center: [-74.19, 46.03], as [lng, lat]
center == <<-7419, 4603>>

Zoom == 14

\* CoordinateTransformer: lngLatTo3857, x = R lng pi / 180 and
\* y = R ln(tan(pi/4 + lat pi/360)) with R = 6378137.0.  The closed form is
\* not computable here: the function is tabulated, at double precision, on
\* the two corners initMap gives it.
lngLatTo3857(lng, lat) ==
    CASE <<lng, lat>> = aoiBounds[1] ->
            JsArray(<<JsNumber(<<"-", "8", "4", "7", "6", "9", "7", "9", ".",
                                 "2", "2", "3", "9", "0", "7", "7", "8", "2">>),
                      JsNumber(<<"5", "6", "7", "2", "0", "4", "0", ".",
                                 "4", "0", "7", "0", "9", "0", "6", "4", "8">>)>>)
      [] <<lng, lat>> = aoiBounds[2] ->
            JsArray(<<JsNumber(<<"-", "8", "1", "3", "1", "8", "8", "8", ".",
                                 "8", "0", "2", "4", "4", "8", "6", "3", "3">>),
                      JsNumber(<<"5", "8", "5", "1", "1", "4", "2", ".",
                                 "0", "8", "3", "5", "7", "3", "6", "8", "1">>)>>)

aoiBounds3857 ==
    JsArray(<<lngLatTo3857(aoiBounds[1][1], aoiBounds[1][2]),
              lngLatTo3857(aoiBounds[2][1], aoiBounds[2][2])>>)

\* new maplibregl.Map({..., center, zoom, maxBounds: aoiBounds})
InitView == [center |-> center, zoom |-> Zoom, maxBounds |-> aoiBounds]

-----------------------------------------------------------------------------
(* The style document and the engine operations the handlers call *)

CogSource == "local-cog"

CogLayer == "local-cog-layer"

HrdemLayer == "hrdem-wms-layer"

NoProps == [k \in {} |-> 0]

SetProp(props, key, value) ==
    [k \in (DOMAIN props) \cup {key} |-> IF k = key THEN value ELSE props[k]]

LayerIds(ls) == [i \in 1..Len(ls) |-> ls[i].id]

getLayer(ls, id) == \E i \in 1..Len(ls) : ls[i].id = id

getSource(ss, id) == id \in DOMAIN ss

LayerOf(ls, id) == ls[CHOOSE i \in 1..Len(ls) : ls[i].id = id]

removeLayer(ls, id) == SelectSeq(ls, LAMBDA l : l.id # id)

removeSource(ss, id) == [k \in (DOMAIN ss) \ {id} |-> ss[k]]

addSource(ss, id, source) ==
    [k \in (DOMAIN ss) \cup {id} |-> IF k = id THEN source ELSE ss[k]]

\* addLayer(layer, beforeId): the layer goes directly below beforeId.
addLayer(ls, layer, beforeId) ==
    IF getLayer(ls, beforeId)
    THEN LET i == CHOOSE j \in 1..Len(ls) : ls[j].id = beforeId
         IN  SubSeq(ls, 1, i - 1) \o <<layer>> \o SubSeq(ls, i, Len(ls))
    ELSE Append(ls, layer)

setLayoutProperty(ls, id, key, value) ==
    [i \in 1..Len(ls) |->
        IF ls[i].id = id
        THEN [ls[i] EXCEPT !.layout = SetProp(ls[i].layout, key, value)]
        ELSE ls[i]]

setPaintProperty(ls, id, key, value) ==
    [i \in 1..Len(ls) |->
        IF ls[i].id = id
        THEN [ls[i] EXCEPT !.paint = SetProp(ls[i].paint, key, value)]
        ELSE ls[i]]

\* The requests the style cannot satisfy.
removeLayerFails(ls, id) == ~getLayer(ls, id)

removeSourceFails(ss, ls, id) ==
    \/ ~getSource(ss, id)
    \/ \E i \in 1..Len(ls) : ls[i].source = id

addSourceFails(ss, id) == getSource(ss, id)

addLayerFails(ss, ls, layer, beforeId) ==
    \/ getLayer(ls, layer.id)
    \/ ~getSource(ss, layer.source)
    \/ ~getLayer(ls, beforeId)

setPropertyFails(ls, id) == ~getLayer(ls, id)

\* cogToggle.checked ? 'visible' : 'none'
Visibility(checked) == IF checked THEN "visible" ELSE "none"

-----------------------------------------------------------------------------
(* LayerComposer: the style document initMap declares *)

quebecImageryUrl ==
    <<"https://servicesmatriciels.mern.gouv.qc.ca/erdas-iws/ogc/wmts/Imagerie_Continue/Imagerie_GQ/default/GoogleMapsCompatibleExt2:epsg:3857/{z}/{y}/{x}.jpg">>

cartoLabelsUrl ==
    <<"https://basemaps.cartocdn.com/rastertiles/voyager_only_labels/{z}/{x}/{y}.png">>

\* const hrdemWmsUrl = buildHRDEMWmsUrl(aoiBounds3857)
hrdemWmsCall == WmsCall(aoiBounds3857, Undefined)

hrdemWmsUrl == hrdemWmsCall.result

laurentidesBounds ==
    <<"-74.30994776313827", "45.85327435249255", "-74.05654223402449", "46.07484617926616">>

TileSize == 256

InitCogOpacity == 80

InitHrdemOpacity == 70

RasterSource(tileUrl) == [type |-> "raster", tiles |-> <<tileUrl>>, tileSize |-> TileSize]

CogSourceConfig(tileUrl) ==
    [type |-> "raster", tiles |-> <<tileUrl>>, tileSize |-> TileSize,
     bounds |-> laurentidesBounds]

Layer(id, source, paint) ==
    [id |-> id, type |-> "raster", source |-> source, paint |-> paint, layout |-> NoProps]

FixedSources ==
    [k \in {"quebec-imagery", "map-labels", "hrdem-wms"} |->
        CASE k = "quebec-imagery" -> RasterSource(quebecImageryUrl)
          [] k = "map-labels"     -> RasterSource(cartoLabelsUrl)
          [] k = "hrdem-wms"      -> RasterSource(hrdemWmsUrl)]

BaseLayer == Layer("base-imagery", "quebec-imagery", NoProps)

LabelsLayer == Layer("labels-layer", "map-labels", NoProps)

InitSources == addSource(FixedSources, CogSource, CogSourceConfig(buildCogTileUrl(NoOptions)))

InitLayers ==
    <<BaseLayer,
      Layer(CogLayer, CogSource, SetProp(NoProps, "raster-opacity", InitCogOpacity)),
      Layer(HrdemLayer, "hrdem-wms", SetProp(NoProps, "raster-opacity", InitHrdemOpacity)),
      LabelsLayer>>

-----------------------------------------------------------------------------
(* The controls.  index.html is not part of the sources, so the values the  *)
(* controls start with, and the values events give them, are drawn from    *)
(* these sets.                                                             *)

\* Number of steps of the local-raster opacity slider between 0 and 1.
SliderSteps == 2

\* The value string of a range input at h hundredths: the shortest decimal
\* ("0", "0.5", "0.33", "1").
NumberString(h) ==
    IntString(h \div 100) \o
        (IF h % 100 = 0 THEN <<>>
         ELSE IF h % 10 = 0 THEN <<".", Digits[((h \div 10) % 10) + 1]>>
         ELSE <<".", Digits[((h \div 10) % 10) + 1], Digits[(h % 10) + 1]>>)

SliderValues == {NumberString((100 * k) \div SliderSteps) : k \in 0..SliderSteps}

HrdemSliderValues == {<<"0", ".", "4">>, <<"1">>}

Colormaps == {<<>>, <<"v", "i", "r", "i", "d", "i", "s">>, DefaultColormap}

Rescales == {<<>>, <<"3", "0", ",", "9", "0">>, <<"a", "b", "c">>}

InitDom ==
    {[cogToggle |-> ct, cogOpacitySlider |-> co, cogOpacityValue |-> toFixed2(parseFloat(co)),
      cogColormap |-> cm, cogRescale |-> rs,
      toggle |-> ht, opacitySlider |-> ho, opacityValue |-> toFixed2(parseFloat(ho))] :
        ct \in BOOLEAN, co \in SliderValues, cm \in Colormaps, rs \in Rescales,
        ht \in BOOLEAN, ho \in HrdemSliderValues}

Document == [sources |-> sources, layers |-> layers]

InitRest ==
    /\ dom \in InitDom
    /\ pc = "idle"
    /\ url = <<>>
    /\ styleError = FALSE
    /\ calls = <<>>
    /\ lastEvent = "load"
    /\ before = Document
    /\ fresh = FALSE
    /\ twice = FALSE
    /\ absentToggle = "no"

\* const map = initMap()
Init ==
    /\ sources = InitSources
    /\ layers = InitLayers
    /\ view = InitView
    /\ call = hrdemWmsCall
    /\ InitRest

-----------------------------------------------------------------------------
(* Event handlers of main.js.  The host runs one handler at a time, to     *)
(* completion: a handler starts only when pc = "idle".                     *)

Settle(a) == IF a = "materialized" THEN "no" ELSE a

\* toggle.addEventListener('change', ...)
toggle_change ==
    /\ pc = "idle"
    /\ LET checked == ~dom.toggle
       IN  /\ dom' = [dom EXCEPT !.toggle = checked]
           /\ layers' = setLayoutProperty(layers, HrdemLayer, "visibility", Visibility(checked))
           /\ styleError' = (styleError \/ setPropertyFails(layers, HrdemLayer))
           /\ calls' = << <<"setLayoutProperty", HrdemLayer>> >>
    /\ lastEvent' = "toggle.change"
    /\ before' = Document
    /\ absentToggle' = Settle(absentToggle)
    /\ UNCHANGED <<view, call, sources, pc, url, fresh, twice>>

\* opacitySlider.addEventListener('input', ...)
opacitySlider_input(v) ==
    /\ pc = "idle"
    /\ v # dom.opacitySlider
    /\ LET value == parseFloat(v)
       IN  /\ dom' = [dom EXCEPT !.opacitySlider = v, !.opacityValue = toFixed2(value)]
           /\ layers' = setPaintProperty(layers, HrdemLayer, "raster-opacity", value)
           /\ styleError' = (styleError \/ setPropertyFails(layers, HrdemLayer))
           /\ calls' = << <<"setPaintProperty", HrdemLayer>> >>
    /\ lastEvent' = "opacitySlider.input"
    /\ before' = Document
    /\ absentToggle' = Settle(absentToggle)
    /\ UNCHANGED <<view, call, sources, pc, url, fresh, twice>>

\* Mutant of cogToggle_change: the layer's existence is not tested before
\* the layout call.
cogToggle_change_unguarded ==
    /\ pc = "idle"
    /\ LET checked == ~dom.cogToggle
       IN  /\ dom' = [dom EXCEPT !.cogToggle = checked]
           /\ layers' = setLayoutProperty(layers, CogLayer, "visibility", Visibility(checked))
           /\ styleError' = (styleError \/ setPropertyFails(layers, CogLayer))
           /\ calls' = << <<"setLayoutProperty", CogLayer>> >>
           /\ absentToggle' = IF getLayer(layers, CogLayer)
                              THEN Settle(absentToggle) ELSE "pending"
    /\ lastEvent' = "cogToggle.change"
    /\ before' = Document
    /\ fresh' = FALSE
    /\ UNCHANGED <<view, call, sources, pc, url, twice>>

\* cogToggle.addEventListener('change', ...)
cogToggle_change ==
    /\ pc = "idle"
    /\ LET checked == ~dom.cogToggle
       IN  /\ dom' = [dom EXCEPT !.cogToggle = checked]
           /\ IF getLayer(layers, CogLayer)
              THEN /\ layers' = setLayoutProperty(layers, CogLayer, "visibility",
                                                  Visibility(checked))
                   /\ calls' = << <<"setLayoutProperty", CogLayer>> >>
                   /\ absentToggle' = Settle(absentToggle)
              ELSE /\ layers' = layers
                   /\ calls' = <<>>
                   /\ absentToggle' = "pending"
    /\ lastEvent' = "cogToggle.change"
    /\ before' = Document
    /\ fresh' = FALSE
    /\ UNCHANGED <<view, call, sources, pc, url, styleError, twice>>

\* Mutant of cogOpacitySlider_input: the handler rebuilds the layer pair
\* (tear down, re-add with the new opacity) instead of painting in place.
cogOpacitySlider_input_rebuilds(v) ==
    /\ pc = "idle"
    /\ v # dom.cogOpacitySlider
    /\ dom' = [dom EXCEPT !.cogOpacitySlider = v,
                          !.cogOpacityValue = toFixed2(parseFloat(v))]
    /\ call' = CogCall([colormap |-> dom.cogColormap, rescale |-> dom.cogRescale])
    /\ url' = call'.result
    /\ pc' = "removeLayer"
    /\ calls' = <<>>
    /\ lastEvent' = "cogOpacitySlider.input"
    /\ before' = Document
    /\ fresh' = FALSE
    /\ twice' = FALSE
    /\ absentToggle' = Settle(absentToggle)
    /\ UNCHANGED <<view, sources, layers, styleError>>

\* cogOpacitySlider.addEventListener('input', ...)
cogOpacitySlider_input(v) ==
    /\ pc = "idle"
    /\ v # dom.cogOpacitySlider
    /\ LET value == parseFloat(v)
       IN  /\ dom' = [dom EXCEPT !.cogOpacitySlider = v, !.cogOpacityValue = toFixed2(value)]
           /\ IF getLayer(layers, CogLayer)
              THEN /\ layers' = setPaintProperty(layers, CogLayer, "raster-opacity", value)
                   /\ calls' = << <<"setPaintProperty", CogLayer>> >>
              ELSE /\ layers' = layers
                   /\ calls' = <<>>
    /\ lastEvent' = "cogOpacitySlider.input"
    /\ before' = Document
    /\ fresh' = FALSE
    /\ absentToggle' = Settle(absentToggle)
    /\ UNCHANGED <<view, call, sources, pc, url, styleError, twice>>

\* Mutant of updateCogSource_enter: the teardown starts with the source,
\* the layer's removal is lost.
updateCogSource_enter_sourceFirst(event, d) ==
    /\ pc = "idle"
    /\ dom' = d
    /\ call' = CogCall([colormap |-> d.cogColormap, rescale |-> d.cogRescale])
    /\ url' = call'.result
    /\ pc' = "removeSource"
    /\ calls' = <<>>
    /\ lastEvent' = event
    /\ before' = Document
    /\ twice' = (fresh /\ d = dom)
    /\ fresh' = FALSE
    /\ absentToggle' = Settle(absentToggle)
    /\ UNCHANGED <<view, sources, layers, styleError>>

\* updateCogSource(), up to the first engine call: the controls are read
\* and the tile URL is built.  d is dom as the triggering event leaves it.
updateCogSource_enter(event, d) ==
    /\ pc = "idle"
    /\ dom' = d
    /\ call' = CogCall([colormap |-> d.cogColormap, rescale |-> d.cogRescale])
    /\ url' = call'.result
    /\ pc' = "removeLayer"
    /\ calls' = <<>>
    /\ lastEvent' = event
    /\ before' = Document
    /\ twice' = (fresh /\ d = dom)
    /\ fresh' = FALSE
    /\ absentToggle' = Settle(absentToggle)
    /\ UNCHANGED <<view, sources, layers, styleError>>

\* Mutant of updateCogSource_removeLayer: the layer is left in place.
updateCogSource_removeLayer_skipped ==
    /\ pc = "removeLayer"
    /\ pc' = "removeSource"
    /\ UNCHANGED <<view, call, sources, layers, dom, url, styleError, calls, lastEvent, before,
                   fresh, twice, absentToggle>>

\* Mutant of updateCogSource_removeLayer: the existence test is inverted.
updateCogSource_removeLayer_inverted ==
    /\ pc = "removeLayer"
    /\ IF ~getLayer(layers, CogLayer)
       THEN /\ layers' = removeLayer(layers, CogLayer)
            /\ styleError' = (styleError \/ removeLayerFails(layers, CogLayer))
            /\ calls' = Append(calls, <<"removeLayer", CogLayer>>)
       ELSE UNCHANGED <<layers, styleError, calls>>
    /\ pc' = "removeSource"
    /\ UNCHANGED <<view, call, sources, dom, url, lastEvent, before, fresh, twice, absentToggle>>

\* if (map.getLayer('local-cog-layer')) map.removeLayer('local-cog-layer')
updateCogSource_removeLayer ==
    /\ pc = "removeLayer"
    /\ IF getLayer(layers, CogLayer)
       THEN /\ layers' = removeLayer(layers, CogLayer)
            /\ styleError' = (styleError \/ removeLayerFails(layers, CogLayer))
            /\ calls' = Append(calls, <<"removeLayer", CogLayer>>)
       ELSE UNCHANGED <<layers, styleError, calls>>
    /\ pc' = "removeSource"
    /\ UNCHANGED <<view, call, sources, dom, url, lastEvent, before, fresh, twice, absentToggle>>

\* Mutant of updateCogSource_removeSource: the existence test is missing.
updateCogSource_removeSource_unguarded ==
    /\ pc = "removeSource"
    /\ sources' = removeSource(sources, CogSource)
    /\ styleError' = (styleError \/ removeSourceFails(sources, layers, CogSource))
    /\ calls' = Append(calls, <<"removeSource", CogSource>>)
    /\ pc' = "addSource"
    /\ UNCHANGED <<view, call, layers, dom, url, lastEvent, before, fresh, twice, absentToggle>>

\* Mutant of updateCogSource_removeSource: the wrong source id is removed.
updateCogSource_removeSource_wrongId ==
    /\ pc = "removeSource"
    /\ IF getSource(sources, CogSource)
       THEN /\ sources' = removeSource(sources, "hrdem-wms")
            /\ styleError' = (styleError \/ removeSourceFails(sources, layers, "hrdem-wms"))
            /\ calls' = Append(calls, <<"removeSource", "hrdem-wms">>)
       ELSE UNCHANGED <<sources, styleError, calls>>
    /\ pc' = "addSource"
    /\ UNCHANGED <<view, call, layers, dom, url, lastEvent, before, fresh, twice, absentToggle>>

\* if (map.getSource('local-cog')) map.removeSource('local-cog')
updateCogSource_removeSource ==
    /\ pc = "removeSource"
    /\ IF getSource(sources, CogSource)
       THEN /\ sources' = removeSource(sources, CogSource)
            /\ styleError' = (styleError \/ removeSourceFails(sources, layers, CogSource))
            /\ calls' = Append(calls, <<"removeSource", CogSource>>)
       ELSE UNCHANGED <<sources, styleError, calls>>
    /\ pc' = "addSource"
    /\ UNCHANGED <<view, call, layers, dom, url, lastEvent, before, fresh, twice, absentToggle>>

\* Mutant of updateCogSource_addSource: updateCogSource returns once the
\* source is added, leaving the layer out.
updateCogSource_addSource_returns ==
    /\ pc = "addSource"
    /\ sources' = addSource(sources, CogSource, CogSourceConfig(url))
    /\ styleError' = (styleError \/ addSourceFails(sources, CogSource))
    /\ calls' = Append(calls, <<"addSource", CogSource>>)
    /\ pc' = "idle"
    /\ UNCHANGED <<view, call, layers, dom, url, lastEvent, before, fresh, twice, absentToggle>>

\* Mutant of updateCogSource_addSource: the source is given the tile URL of
\* the source it replaces.
updateCogSource_addSource_staleUrl ==
    /\ pc = "addSource"
    /\ sources' = addSource(sources, CogSource,
                            IF getSource(before.sources, CogSource)
                            THEN before.sources[CogSource]
                            ELSE CogSourceConfig(url))
    /\ styleError' = (styleError \/ addSourceFails(sources, CogSource))
    /\ calls' = Append(calls, <<"addSource", CogSource>>)
    /\ pc' = "addLayer"
    /\ UNCHANGED <<view, call, layers, dom, url, lastEvent, before, fresh, twice, absentToggle>>

\* map.addSource('local-cog', {type, tiles: [url], tileSize, bounds})
updateCogSource_addSource ==
    /\ pc = "addSource"
    /\ sources' = addSource(sources, CogSource, CogSourceConfig(url))
    /\ styleError' = (styleError \/ addSourceFails(sources, CogSource))
    /\ calls' = Append(calls, <<"addSource", CogSource>>)
    /\ pc' = "addLayer"
    /\ UNCHANGED <<view, call, layers, dom, url, lastEvent, before, fresh, twice, absentToggle>>

\* Mutant of updateCogSource_addLayer: the anchor argument is missing, so
\* the layer goes on top.
updateCogSource_addLayer_noAnchor ==
    /\ pc = "addLayer"
    /\ LET layer == Layer(CogLayer, CogSource,
                          SetProp(NoProps, "raster-opacity", parseFloat(dom.cogOpacitySlider)))
       IN  /\ layers' = Append(layers, layer)
           /\ styleError' = (styleError \/ addLayerFails(sources, layers, layer, HrdemLayer))
    /\ calls' = Append(calls, <<"addLayer", CogLayer>>)
    /\ pc' = "setLayoutProperty"
    /\ UNCHANGED <<view, call, sources, dom, url, lastEvent, before, fresh, twice, absentToggle>>

\* Mutant of updateCogSource_addLayer: the layer is recreated with the opacity
\* initMap declares, not with the slider's.
updateCogSource_addLayer_declaredOpacity ==
    /\ pc = "addLayer"
    /\ LET layer == Layer(CogLayer, CogSource,
                          SetProp(NoProps, "raster-opacity", InitCogOpacity))
       IN  /\ layers' = addLayer(layers, layer, HrdemLayer)
           /\ styleError' = (styleError \/ addLayerFails(sources, layers, layer, HrdemLayer))
    /\ calls' = Append(calls, <<"addLayer", CogLayer>>)
    /\ pc' = "setLayoutProperty"
    /\ UNCHANGED <<view, call, sources, dom, url, lastEvent, before, fresh, twice, absentToggle>>

\* map.addLayer({id, type, source, paint: {'raster-opacity': ...}}, 'hrdem-wms-layer')
updateCogSource_addLayer ==
    /\ pc = "addLayer"
    /\ LET layer == Layer(CogLayer, CogSource,
                          SetProp(NoProps, "raster-opacity", parseFloat(dom.cogOpacitySlider)))
       IN  /\ layers' = addLayer(layers, layer, HrdemLayer)
           /\ styleError' = (styleError \/ addLayerFails(sources, layers, layer, HrdemLayer))
    /\ calls' = Append(calls, <<"addLayer", CogLayer>>)
    /\ pc' = "setLayoutProperty"
    /\ UNCHANGED <<view, call, sources, dom, url, lastEvent, before, fresh, twice, absentToggle>>

\* Mutant of updateCogSource_setLayoutProperty: the recreated layer is
\* always made visible.
updateCogSource_setLayoutProperty_visible ==
    /\ pc = "setLayoutProperty"
    /\ layers' = setLayoutProperty(layers, CogLayer, "visibility", "visible")
    /\ styleError' = (styleError \/ setPropertyFails(layers, CogLayer))
    /\ calls' = Append(calls, <<"setLayoutProperty", CogLayer>>)
    /\ pc' = "idle"
    /\ fresh' = TRUE
    /\ absentToggle' = IF absentToggle = "pending" THEN "materialized" ELSE absentToggle
    /\ UNCHANGED <<view, call, sources, dom, url, lastEvent, before, twice>>

\* map.setLayoutProperty('local-cog-layer', 'visibility', ...); return
updateCogSource_setLayoutProperty ==
    /\ pc = "setLayoutProperty"
    /\ layers' = setLayoutProperty(layers, CogLayer, "visibility", Visibility(dom.cogToggle))
    /\ styleError' = (styleError \/ setPropertyFails(layers, CogLayer))
    /\ calls' = Append(calls, <<"setLayoutProperty", CogLayer>>)
    /\ pc' = "idle"
    /\ fresh' = TRUE
    /\ absentToggle' = IF absentToggle = "pending" THEN "materialized" ELSE absentToggle
    /\ UNCHANGED <<view, call, sources, dom, url, lastEvent, before, twice>>

\* cogApplyBtn.addEventListener('click', ...)
cogApplyBtn_click == updateCogSource_enter("cogApplyBtn.click", dom)

\* Mutant of cogColormap_change: the handler takes the new selection and does
\* not call updateCogSource.
cogColormap_change_noUpdate(c) ==
    /\ pc = "idle"
    /\ c # dom.cogColormap
    /\ dom' = [dom EXCEPT !.cogColormap = c]
    /\ calls' = <<>>
    /\ lastEvent' = "cogColormap.change"
    /\ before' = Document
    /\ fresh' = FALSE
    /\ absentToggle' = Settle(absentToggle)
    /\ UNCHANGED <<view, call, sources, layers, pc, url, styleError, twice>>

\* cogColormap.addEventListener('change', ...): the selection has changed to c
cogColormap_change(c) ==
    /\ c # dom.cogColormap
    /\ updateCogSource_enter("cogColormap.change", [dom EXCEPT !.cogColormap = c])

\* cogRescale.addEventListener('keydown', ...), e.key === 'Enter'
cogRescale_keydown_Enter == updateCogSource_enter("cogRescale.keydown", dom)

\* cogRescale keydown with any other key: the handler calls nothing and the
\* field's text becomes r.
cogRescale_keydown_other(r) ==
    /\ pc = "idle"
    /\ r # dom.cogRescale
    /\ dom' = [dom EXCEPT !.cogRescale = r]
    /\ calls' = <<>>
    /\ lastEvent' = "cogRescale.edit"
    /\ before' = Document
    /\ fresh' = FALSE
    /\ absentToggle' = Settle(absentToggle)
    /\ UNCHANGED <<view, call, sources, layers, pc, url, styleError, twice>>

UpdateEvents == {"cogApplyBtn.click", "cogColormap.change", "cogRescale.keydown"}

Next ==
    \/ toggle_change
    \/ \E v \in HrdemSliderValues : opacitySlider_input(v)
    \/ cogToggle_change
    \/ \E v \in SliderValues : cogOpacitySlider_input(v)
    \/ cogApplyBtn_click
    \/ \E c \in Colormaps : cogColormap_change(c)
    \/ cogRescale_keydown_Enter
    \/ \E r \in Rescales : cogRescale_keydown_other(r)
    \/ updateCogSource_removeLayer
    \/ updateCogSource_removeSource
    \/ updateCogSource_addSource
    \/ updateCogSource_addLayer
    \/ updateCogSource_setLayoutProperty

Spec == Init /\ [][Next]_vars

-----------------------------------------------------------------------------
(* The structural states of the dynamic pair a handler can be entered in.  *)
(* The guards of updateCogSource and of the paint handlers distinguish     *)
(* three: both present (the document initMap declares today), both absent  *)
(* (the document the earlier initMap declares, which has no local-cog      *)
(* pair), and the source present without its layer.                        *)

hrdemWmsUrlEarlier ==
    <<"https://datacube.services.geo.ca/wrapper/ogc/elevation-hrdem-mosaic?SERVICE=WMS&VERSION=1.3.0&REQUEST=GetMap&LAYERS=dtm-slope&STYLES=slope_grey&FORMAT=image/png&TRANSPARENT=TRUE&CRS=EPSG:3857&WIDTH=512&HEIGHT=512&BBOX={bbox-epsg-3857}">>

EarlierHrdemPaint ==
    [k \in {"raster-opacity", "raster-hue-rotate", "raster-saturation", "raster-contrast"} |->
        CASE k = "raster-opacity"    -> 40
          [] k = "raster-hue-rotate" -> 18000
          [] k = "raster-saturation" -> -30
          [] k = "raster-contrast"   -> 10]

\* center: [-74.2, 46.0], zoom: 12, no maxBounds
EarlierView == [center |-> <<-7420, 4600>>, zoom |-> 12]

\* initMap as map.js declares it further down: no local-cog source or layer
InitAbsent ==
    /\ sources = [FixedSources EXCEPT !["hrdem-wms"] = RasterSource(hrdemWmsUrlEarlier)]
    /\ layers = <<BaseLayer, Layer(HrdemLayer, "hrdem-wms", EarlierHrdemPaint), LabelsLayer>>
    /\ view = EarlierView
    /\ call = [fn |-> "buildHRDEMWmsUrl", args |-> <<>>, result |-> hrdemWmsUrlEarlier]
    /\ InitRest

\* the source is declared, its layer is not
InitSourceOnly ==
    /\ sources = InitSources
    /\ layers = removeLayer(InitLayers, CogLayer)
    /\ view = InitView
    /\ call = hrdemWmsCall
    /\ InitRest

InitAny == Init \/ InitAbsent \/ InitSourceOnly

SpecAny == InitAny /\ [][Next]_vars

-----------------------------------------------------------------------------
(* The URL builders on their own: both are exported by map.js, and a call  *)
(* may give them any argument.  The calls drawn here include the shapes    *)
(* the program itself passes: {} (initMap), {colormap, rescale} with the   *)
(* control values, empty or not (updateCogSource), and the projected AOI   *)
(* box as first argument of buildHRDEMWmsUrl (initMap).                    *)

BboxToken == <<"{", "b", "b", "o", "x", "-", "e", "p", "s", "g", "-", "3", "8", "5", "7", "}">>

BuilderColormaps == Colormaps \cup {<<"{", "z", "}">>, <<"a", "&", "b", "=", "c">>}

BuilderRescales == Rescales \cup {<<"{", "x", "}", "/", "{", "y", "}">>, <<"0", ",", " ", "1">>}

CogOptionObjects ==
    {NoOptions}
        \cup {[colormap |-> c] : c \in BuilderColormaps}
        \cup {[rescale |-> r] : r \in BuilderRescales}
        \cup {[colormap |-> c, rescale |-> r] : c \in BuilderColormaps, r \in BuilderRescales}

ZFactorArgs ==
    {Undefined, DefaultZFactor, JsNumber(<<"2">>), JsString(<<"1", ".", "5">>),
     JsString(<<"1", " ", "0">>), JsString(BboxToken), aoiBounds3857}

WmsRescaleArgs ==
    {Undefined, Null,
     JsRange(JsNumber(<<"0">>), JsNumber(<<"2", "5", "5">>)),
     JsRange(JsString(<<"1", "&", "2">>), JsString(<<"{", "z", "}">>))}

\* buildCogTileUrl(opts), called on its own
call_buildCogTileUrl(opts) ==
    /\ pc = "idle"
    /\ call' = CogCall(opts)
    /\ UNCHANGED <<sources, layers, dom, pc, url, styleError, calls, lastEvent,
                   before, fresh, twice, absentToggle, view>>

\* buildHRDEMWmsUrl(zFactor, rescale), called on its own
call_buildHRDEMWmsUrl(zFactorArg, rescaleArg) ==
    /\ pc = "idle"
    /\ call' = WmsCall(zFactorArg, rescaleArg)
    /\ UNCHANGED <<sources, layers, dom, pc, url, styleError, calls, lastEvent,
                   before, fresh, twice, absentToggle, view>>

NextBuilders ==
    \/ \E opts \in CogOptionObjects : call_buildCogTileUrl(opts)
    \/ \E z \in ZFactorArgs, r \in WmsRescaleArgs : call_buildHRDEMWmsUrl(z, r)

SpecBuilders == Init /\ [][NextBuilders]_vars

-----------------------------------------------------------------------------
(* Properties *)

IsPrefix(s, t) == Len(s) <= Len(t) /\ SubSeq(t, 1, Len(s)) = s

Contains(s, sub) ==
    \E i \in 1..(Len(s) - Len(sub) + 1) : SubSeq(s, i, i + Len(sub) - 1) = sub

Reconfiguring == lastEvent \in UpdateEvents

Reconfigured == pc = "idle" /\ Reconfiguring

\* The engine mutations of one reconfiguration of a present pair, in order.
ReconfigureCalls ==
    << <<"removeLayer", CogLayer>>, <<"removeSource", CogSource>>,
       <<"addSource", CogSource>>, <<"addLayer", CogLayer>>,
       <<"setLayoutProperty", CogLayer>> >>

Issued(op, id) == Len(calls') = Len(calls) + 1 /\ calls'[Len(calls')] = <<op, id>>

\* C1: in every state, between events and after each single engine mutation
\* inside a handler, every layer of the style document names a source that
\* is present in the document.
C1_NoDanglingReference ==
    \A i \in 1..Len(layers) : getSource(sources, layers[i].source)

\* A reconfiguration is between its two removals and its two additions:
\* the dynamic layer and its source are both gone.
C1_Witness ==
    /\ pc = "addSource"
    /\ calls = SubSeq(ReconfigureCalls, 1, 2)
    /\ ~getLayer(layers, CogLayer)
    /\ ~getSource(sources, CogSource)

\* C2: the mutations of every reconfiguration are issued in the order
\* removeLayer, removeSource, addSource, addLayer (then the visibility is
\* set); removeSource is never issued while the dynamic layer exists and
\* addLayer is never issued while its source is missing.
C2_MutationOrder ==
    /\ [](Reconfiguring =>
            /\ IsPrefix(calls, ReconfigureCalls)
            /\ (pc = "idle" => calls = ReconfigureCalls))
    /\ [][Issued("removeSource", CogSource) => ~getLayer(layers, CogLayer)]_vars
    /\ [][Issued("addLayer", CogLayer) => getSource(sources, CogSource)]_vars

C2_Witness == Reconfigured /\ calls = ReconfigureCalls

\* C3: whenever the dynamic layer exists at the end of a handler (and from
\* the moment a reconfiguration has re-added it), the layers are, bottom to
\* top, base-imagery, local-cog-layer, hrdem-wms-layer, labels-layer: the
\* order of the initial document, the dynamic layer directly below the
\* anchor.
C3_LayerOrder ==
    pc \in {"idle", "setLayoutProperty"} =>
        /\ LayerIds(layers) = <<"base-imagery", CogLayer, HrdemLayer, "labels-layer">>
        /\ LayerIds(layers) = LayerIds(InitLayers)

\* A second reconfiguration in a row has completed.
C3_Witness == Reconfigured /\ twice /\ LayerIds(layers)[2] = CogLayer

\* C4: when the toggle changed while the dynamic layer was absent and a
\* reconfiguration then created the layer, the layer's visibility is the one
\* the toggle last requested.
C4_RememberedVisibility ==
    absentToggle = "materialized" =>
        /\ getLayer(layers, CogLayer)
        /\ "visibility" \in DOMAIN LayerOf(layers, CogLayer).layout
        /\ LayerOf(layers, CogLayer).layout["visibility"] = Visibility(dom.cogToggle)

\* The toggle asked for 'none' while the layer was absent, and the layer
\* has since been created.
C4_Witness == absentToggle = "materialized" /\ ~dom.cogToggle /\ getLayer(layers, CogLayer)

\* C5: a reconfiguration entered right after another one, with no control
\* of the dynamic layer changed in between, ends with the style document it
\* started with (same sources and tile URL, same layer order, same paint and
\* visibility values).
C5_Idempotent == (Reconfigured /\ twice) => Document = before

C5_Witness ==
    /\ Reconfigured
    /\ twice
    /\ calls = ReconfigureCalls
    /\ sources[CogSource].tiles = <<url>>

PaintEvents == {"cogToggle.change", "cogOpacitySlider.input"}

\* The step enters the handler of a visibility-toggle or opacity event.
PaintEventStep == pc = "idle" /\ lastEvent' \in PaintEvents

\* What a paint event asks of the dynamic layer.
PaintedLayer(layer) ==
    IF lastEvent' = "cogToggle.change"
    THEN [layer EXCEPT !.layout = SetProp(layer.layout, "visibility",
                                          Visibility(~dom.cogToggle))]
    ELSE [layer EXCEPT !.paint = SetProp(layer.paint, "raster-opacity",
                                         parseFloat(dom'.cogOpacitySlider))]

PaintCall ==
    IF lastEvent' = "cogToggle.change"
    THEN <<"setLayoutProperty", CogLayer>>
    ELSE <<"setPaintProperty", CogLayer>>

\* C6: a visibility-toggle or opacity event that finds the dynamic layer
\* present is handled in one step that issues exactly one engine call, the
\* paint or layout call on local-cog-layer; the sources (and so the tile
\* URL), the layer order, every other layer and every other value of the
\* dynamic layer are unchanged.
C6_PaintOnlyWhenPresent ==
    [][(PaintEventStep /\ getLayer(layers, CogLayer)) =>
          /\ pc' = "idle"
          /\ calls' = <<PaintCall>>
          /\ sources' = sources
          /\ Len(layers') = Len(layers)
          /\ \A i \in 1..Len(layers) :
                layers'[i] = IF layers[i].id = CogLayer
                             THEN PaintedLayer(layers[i])
                             ELSE layers[i]]_vars

\* An opacity event has painted the present layer with a value other than
\* the one it was created with.
C6_Witness ==
    /\ pc = "idle"
    /\ lastEvent = "cogOpacitySlider.input"
    /\ calls = << <<"setPaintProperty", CogLayer>> >>
    /\ getLayer(before.layers, CogLayer)
    /\ LayerOf(layers, CogLayer).paint # LayerOf(before.layers, CogLayer).paint
    /\ LayerOf(layers, CogLayer).layout = LayerOf(before.layers, CogLayer).layout

\* C7: a visibility-toggle or opacity event that finds the dynamic layer
\* absent issues no engine call and leaves the style document as it was;
\* only the control's own state (the remembered paint value) changes.
C7_PaintOnlyWhenAbsent ==
    [][(PaintEventStep /\ ~getLayer(layers, CogLayer)) =>
          /\ pc' = "idle"
          /\ calls' = <<>>
          /\ styleError' = styleError
          /\ sources' = sources
          /\ layers' = layers
          /\ dom' # dom
          /\ dom'.cogColormap = dom.cogColormap
          /\ dom'.cogRescale = dom.cogRescale]_vars

\* The toggle changed while the layer was absent: nothing was called and
\* the document is the one the handler found.
C7_Witness ==
    /\ pc = "idle"
    /\ lastEvent = "cogToggle.change"
    /\ absentToggle = "pending"
    /\ ~getLayer(layers, CogLayer)
    /\ calls = <<>>
    /\ Document = before

\* C8: a reconfiguration never asks the engine for something the style
\* cannot satisfy (in particular it never removes an absent layer or
\* source), whichever structural state it is entered in, and it ends with
\* the source local-cog and the layer local-cog-layer both present.
C8_TeardownSafe ==
    /\ ~styleError
    /\ Reconfigured =>
          /\ getSource(sources, CogSource)
          /\ getLayer(layers, CogLayer)
          /\ IsPrefix(SubSeq(ReconfigureCalls, 3, 5),
                      SubSeq(calls, Len(calls) - 2, Len(calls)))

\* A reconfiguration entered with both absent has completed: it issued no
\* removal.
C8_Witness ==
    /\ Reconfigured
    /\ ~getLayer(before.layers, CogLayer)
    /\ ~getSource(before.sources, CogSource)
    /\ calls = SubSeq(ReconfigureCalls, 3, 5)
    /\ getSource(sources, CogSource)
    /\ getLayer(layers, CogLayer)

StructuralOps == {"removeLayer", "removeSource", "addSource", "addLayer"}

\* C9: in every state the three fixed sources are present as declared, the
\* layers base-imagery and labels-layer are present as declared, and
\* hrdem-wms-layer is present with its declared source; no handler issues a
\* structural call on any of them, and the only paint or layout calls on a
\* fixed layer are on hrdem-wms-layer.
C9_FixedLayersKept ==
    /\ \A k \in DOMAIN FixedSources : getSource(sources, k) /\ sources[k] = FixedSources[k]
    /\ \E i \in 1..Len(layers) : layers[i] = BaseLayer
    /\ \E i \in 1..Len(layers) : layers[i] = LabelsLayer
    /\ getLayer(layers, HrdemLayer)
    /\ LayerOf(layers, HrdemLayer).source = "hrdem-wms"
    /\ LayerOf(layers, HrdemLayer).type = "raster"
    /\ \A i \in 1..Len(calls) :
          IF calls[i][1] \in StructuralOps
          THEN calls[i][2] \in {CogSource, CogLayer}
          ELSE calls[i][2] \in {CogLayer, HrdemLayer}

\* After a reconfiguration, the elevation overlay has been hidden.
C9_Witness ==
    /\ pc = "idle"
    /\ fresh
    /\ lastEvent = "toggle.change"
    /\ LayerOf(layers, HrdemLayer).layout # NoProps
    /\ LayerOf(layers, HrdemLayer).layout["visibility"] = "none"

\* A rescale range as the tile service reads it: digits, a comma, digits.
IsNumericRescale(s) ==
    LET n == DigitPrefix(s)
    IN  /\ n > 0
        /\ Len(s) > n + 1
        /\ s[n + 1] = ","
        /\ DigitPrefix(SubSeq(s, n + 2, Len(s))) = Len(s) - n - 1

\* C10, as claimed: the URL a reconfiguration builds starts with the
\* endpoint, carries no rescale parameter when the rescale text is not
\* numeric, and no colormap_name parameter when the colormap is empty.
C10_MalformedOmitted ==
    pc # "idle" =>
        /\ IsPrefix(CogUrlBase, url)
        /\ (~IsNumericRescale(dom.cogRescale) => ~Contains(url, RescaleKey))
        /\ (dom.cogColormap = <<>> => ~Contains(url, ColormapKey))

\* C10, amended: the URL a reconfiguration builds starts with the endpoint;
\* an empty rescale text and an empty colormap are left out of the query
\* string, and a non-empty rescale text is appended percent-encoded whether
\* or not it is numeric.
C10_EmptyOmitted ==
    pc # "idle" =>
        /\ IsPrefix(CogUrlBase, url)
        /\ (dom.cogRescale = <<>> => ~Contains(url, RescaleKey))
        /\ (dom.cogColormap = <<>> => ~Contains(url, ColormapKey))
        /\ (dom.cogRescale # <<>> =>
              Contains(url, RescaleKey \o encodeURIComponent(dom.cogRescale)))

\* A reconfiguration built its URL from the rescale text "abc" and an empty
\* colormap.
C10_Witness ==
    /\ pc # "idle"
    /\ dom.cogRescale = <<"a", "b", "c">>
    /\ dom.cogColormap = <<>>
    /\ url = CogUrlBase \o <<"&", "r", "e", "s", "c", "a", "l", "e", "=", "a", "b", "c">>


-----------------------------------------------------------------------------
(* Reading a URL the way the tile server does: the text after the first    *)
(* "?" is cut at every "&", and each piece at its first "=".               *)

IndexOf(s, c) ==
    IF \E i \in 1..Len(s) : s[i] = c
    THEN CHOOSE i \in 1..Len(s) : s[i] = c /\ \A j \in 1..(i - 1) : s[j] # c
    ELSE 0

RECURSIVE Split(_, _)
Split(s, c) ==
    LET i == IndexOf(s, c)
    IN  IF i = 0 THEN <<s>>
        ELSE <<SubSeq(s, 1, i - 1)>> \o Split(SubSeq(s, i + 1, Len(s)), c)

QueryString(u) ==
    LET i == IndexOf(u, "?") IN IF i = 0 THEN <<>> ELSE SubSeq(u, i + 1, Len(u))

PathOf(u) ==
    LET i == IndexOf(u, "?") IN IF i = 0 THEN u ELSE SubSeq(u, 1, i - 1)

QueryParams(u) ==
    LET pieces == Split(QueryString(u), "&")
    IN  [n \in 1..Len(pieces) |->
            LET i == IndexOf(pieces[n], "=")
            IN  IF i = 0 THEN [key |-> pieces[n], value |-> <<>>]
                ELSE [key |-> SubSeq(pieces[n], 1, i - 1),
                      value |-> SubSeq(pieces[n], i + 1, Len(pieces[n]))]]

\* the values given to the parameter named key, in order
ValuesOf(u, key) ==
    LET named == SelectSeq(QueryParams(u), LAMBDA q : q.key = key)
    IN  [n \in 1..Len(named) |-> named[n].value]

Occurrences(s, part) ==
    Cardinality({i \in 1..(Len(s) - Len(part) + 1) : SubSeq(s, i, i + Len(part) - 1) = part})

IsCogCall == call.fn = "buildCogTileUrl"

IsWmsCall == call.fn = "buildHRDEMWmsUrl" /\ Len(call.args) = 2

ColormapName == <<"c", "o", "l", "o", "r", "m", "a", "p", "_", "n", "a", "m", "e">>

RescaleName == <<"r", "e", "s", "c", "a", "l", "e">>

\* C11 as stated: buildCogTileUrl, given no colormap or no rescale (a
\* property missing from its argument, or an empty control value handed on
\* by the reconfigurator), puts the default cividis / 100,600 in the URL
\* instead of leaving the parameter out.
C11_DefaultsForEmpty ==
    IsCogCall =>
        LET opts == call.args[1]
        IN  /\ ("colormap" \notin DOMAIN opts \/ opts.colormap = <<>>)
                => ValuesOf(call.result, ColormapName) = <<<<"c", "i", "v", "i", "d", "i", "s">>>>
            /\ ("rescale" \notin DOMAIN opts \/ opts.rescale = <<>>)
                => ValuesOf(call.result, RescaleName) = <<<<"1", "0", "0", "%", "2", "C", "6", "0", "0">>>>

\* C11 amended: a property missing from the argument of buildCogTileUrl
\* gets its default (colormap_name=cividis, rescale=100%2C600) in the URL;
\* a property that is present and empty, as the reconfigurator passes an
\* empty control, is left out of the URL.
C11_DefaultsForMissing ==
    IsCogCall =>
        LET opts == call.args[1]
        IN  /\ "colormap" \notin DOMAIN opts
                => ValuesOf(call.result, ColormapName) = <<<<"c", "i", "v", "i", "d", "i", "s">>>>
            /\ "rescale" \notin DOMAIN opts
                => ValuesOf(call.result, RescaleName) = <<<<"1", "0", "0", "%", "2", "C", "6", "0", "0">>>>
            /\ ("colormap" \in DOMAIN opts /\ opts.colormap = <<>>)
                => ValuesOf(call.result, ColormapName) = <<>>
            /\ ("rescale" \in DOMAIN opts /\ opts.rescale = <<>>)
                => ValuesOf(call.result, RescaleName) = <<>>

C11_Witness ==
    /\ IsCogCall
    /\ call.args[1] = [rescale |-> <<>>]
    /\ call.result = CogUrlBase \o <<"&", "c", "o", "l", "o", "r", "m", "a", "p", "_", "n", "a", "m", "e", "=", "c", "i", "v", "i", "d", "i", "s">>

\* C14: for every non-empty colormap c and non-empty rescale r, the URL that
\* buildCogTileUrl returns holds exactly one colormap_name parameter, whose
\* value is c percent-encoded, and exactly one rescale parameter, whose
\* value is r percent-encoded; viridis and 30,90 give colormap_name=viridis
\* and rescale=30%2C90.
C14_ParamsReflectInputs ==
    (IsCogCall /\ DOMAIN call.args[1] = {"colormap", "rescale"}
        /\ call.args[1].colormap # <<>> /\ call.args[1].rescale # <<>>) =>
        LET c == call.args[1].colormap
            r == call.args[1].rescale
        IN  /\ ValuesOf(call.result, ColormapName) = <<encodeURIComponent(c)>>
            /\ ValuesOf(call.result, RescaleName) = <<encodeURIComponent(r)>>
            /\ Occurrences(call.result, ColormapKey) = 1
            /\ Occurrences(call.result, RescaleKey) = 1
            /\ (c = <<"v", "i", "r", "i", "d", "i", "s">> /\ r = <<"3", "0", ",", "9", "0">>)
                => /\ ValuesOf(call.result, ColormapName) = <<<<"v", "i", "r", "i", "d", "i", "s">>>>
                   /\ ValuesOf(call.result, RescaleName) = <<<<"3", "0", "%", "2", "C", "9", "0">>>>
            /\ r = <<"{", "x", "}", "/", "{", "y", "}">>
                => ValuesOf(call.result, RescaleName) = <<<<"%", "7", "B", "x", "%", "7", "D", "%", "2", "F", "%", "7", "B", "y", "%", "7", "D">>>>

C14_Witness ==
    /\ IsCogCall
    /\ call.args[1] = [colormap |-> <<"v", "i", "r", "i", "d", "i", "s">>, rescale |-> <<"3", "0", ",", "9", "0">>]
    /\ call.result = CogUrlBase \o <<"&", "r", "e", "s", "c", "a", "l", "e", "=", "3", "0", "%", "2", "C", "9", "0", "&", "c", "o", "l", "o", "r", "m", "a", "p", "_", "n", "a", "m", "e", "=", "v", "i", "r", "i", "d", "i", "s">>

\* An unresolved token opens with a brace.
OpenBrace == <<"{">>

\* C12: in the output of either builder the substitution tokens stand as
\* literal text exactly once, whatever the arguments: {bbox-epsg-3857} is the
\* value of BBOX in the WMS URL, {z}, {x} and {y} are in the path of the XYZ
\* URL, and no argument value adds an unresolved token or removes one.
C12_TokensKept ==
    /\ IsCogCall =>
        /\ Occurrences(PathOf(call.result), <<"{", "z", "}">>) = 1
        /\ Occurrences(PathOf(call.result), <<"{", "x", "}">>) = 1
        /\ Occurrences(PathOf(call.result), <<"{", "y", "}">>) = 1
        /\ Occurrences(call.result, OpenBrace) = 3
    /\ IsWmsCall =>
        /\ ValuesOf(call.result, <<"B", "B", "O", "X">>) = <<BboxToken>>
        /\ Occurrences(call.result, BboxToken) = 1
        /\ Occurrences(call.result, OpenBrace) = 1

\* The parameters the WMS URL always carries.
FixedWmsParams ==
    {[key |-> <<"S", "E", "R", "V", "I", "C", "E">>, value |-> <<"W", "M", "S">>],
     [key |-> <<"V", "E", "R", "S", "I", "O", "N">>, value |-> <<"1", ".", "3", ".", "0">>],
     [key |-> <<"R", "E", "Q", "U", "E", "S", "T">>, value |-> <<"G", "e", "t", "M", "a", "p">>],
     [key |-> <<"L", "A", "Y", "E", "R", "S">>, value |-> <<"d", "t", "m", "-", "s", "l", "o", "p", "e">>],
     [key |-> <<"S", "T", "Y", "L", "E", "S">>, value |-> <<"s", "l", "o", "p", "e", "_", "g", "r", "e", "y">>],
     [key |-> <<"F", "O", "R", "M", "A", "T">>, value |-> <<"i", "m", "a", "g", "e", "/", "p", "n", "g">>],
     [key |-> <<"T", "R", "A", "N", "S", "P", "A", "R", "E", "N", "T">>, value |-> <<"T", "R", "U", "E">>],
     [key |-> <<"C", "R", "S">>, value |-> <<"E", "P", "S", "G", ":", "3", "8", "5", "7">>],
     [key |-> <<"W", "I", "D", "T", "H">>, value |-> <<"2", "5", "6">>],
     [key |-> <<"H", "E", "I", "G", "H", "T">>, value |-> <<"2", "5", "6">>],
     [key |-> <<"B", "B", "O", "X">>, value |-> <<"{", "b", "b", "o", "x", "-", "e", "p", "s", "g", "-", "3", "8", "5", "7", "}">>]}

\* rescaleNew<bound><channel>, the name of one per-channel rescale parameter
RescaleNewName(bound, channel) ==
    LET k == RescaleNewKey(bound, channel) IN SubSeq(k, 2, Len(k) - 1)

\* C13: the URL buildHRDEMWmsUrl returns always carries every fixed parameter
\* with its value; a zFactor that is given and a rescale range that is given
\* are in it percent-encoded; without a rescale range no rescale parameter is
\* in it.  The call initMap makes is one of the calls this covers.
C13_WmsParams ==
    IsWmsCall =>
        LET zFactor == call.args[1]
            rescale == call.args[2]
            names(bound) == {RescaleNewName(bound, ch) : ch \in {Red, Green, Blue}}
        IN  /\ \A p \in FixedWmsParams : ValuesOf(call.result, p.key) = <<p.value>>
            /\ zFactor # Undefined
                => ValuesOf(call.result, <<"z", "F", "a", "c", "t", "o", "r">>) = <<encodeURIComponent(JsToString(zFactor))>>
            /\ rescale.t = "object"
                => /\ \A n \in names(Min) :
                        ValuesOf(call.result, n) = <<encodeURIComponent(JsToString(rescale.min))>>
                   /\ \A n \in names(Max) :
                        ValuesOf(call.result, n) = <<encodeURIComponent(JsToString(rescale.max))>>
            /\ rescale \in {Undefined, Null}
                => \A n \in names(Min) \cup names(Max) : ValuesOf(call.result, n) = <<>>

\* The step enters the handler of an event on a control of the dynamic layer
\* that changes a parameter.
ParameterEventStep == pc = "idle" /\ lastEvent' \in PaintEvents \cup UpdateEvents

\* C15 as stated: every parameter-change event on the dynamic layer's
\* controls (opacity input, visibility toggle, colormap change, apply click,
\* Enter in the rescale field) starts one call of updateCogSource, and that
\* call runs to its end before another event is handled.
C15_EveryEventReconfigures ==
    [][/\ ParameterEventStep => (pc' = "removeLayer" /\ calls' = <<>>)
       /\ pc # "idle" => (lastEvent' = lastEvent /\ dom' = dom)
       /\ (pc # "idle" /\ pc' = "idle") => calls' = ReconfigureCalls]_vars

\* C15 amended: a colormap change, an apply click and Enter in the rescale
\* field each start exactly one call of updateCogSource, which runs to its
\* end (layer removed, source removed, source added, layer added, visibility
\* set, once each and in this order) before another event is handled; an
\* opacity input and a visibility toggle start no call of updateCogSource:
\* their handler ends in the same step after at most one paint or layout
\* call, with the sources and the set of layers untouched.
C15_OneOperationPerEvent ==
    [][/\ (pc = "idle" /\ lastEvent' \in UpdateEvents)
            => (pc' = "removeLayer" /\ calls' = <<>>)
       /\ (pc = "idle" /\ lastEvent' \in PaintEvents)
            => /\ pc' = "idle"
               /\ Len(calls') <= 1
               /\ \A i \in 1..Len(calls') : calls'[i][1] \notin StructuralOps
               /\ sources' = sources
               /\ LayerIds(layers') = LayerIds(layers)
       /\ pc # "idle"
            => /\ lastEvent' = lastEvent
               /\ dom' = dom
               /\ calls' = SubSeq(ReconfigureCalls, 1, Len(calls) + 1)
       /\ (pc # "idle" /\ pc' = "idle") => calls' = ReconfigureCalls]_vars

C15_Witness ==
    /\ pc = "idle"
    /\ lastEvent = "cogRescale.keydown"
    /\ calls = ReconfigureCalls
    /\ getLayer(before.layers, CogLayer)

\* C16: the center the map is created with lies inside the AOI box,
\* southwest <= center <= northeast in longitude and in latitude, and the
\* box given to the map as maxBounds is that AOI box.
C16_CenterInsideAoi ==
    /\ "maxBounds" \in DOMAIN view
    /\ view.maxBounds = aoiBounds
    /\ LET southwest == view.maxBounds[1]
           northeast == view.maxBounds[2]
       IN  /\ southwest[1] <= view.center[1] /\ view.center[1] <= northeast[1]
           /\ southwest[2] <= view.center[2] /\ view.center[2] <= northeast[2]

C16_Witness ==
    /\ lastEvent = "load"
    /\ view.center = <<-7419, 4603>>
    /\ view.maxBounds = << <<-7615, 4532>>, <<-7305, 4644>> >>

\* C17: when a call of updateCogSource has ended, the recreated dynamic layer
\* has the opacity the opacity slider holds and the visibility the toggle
\* holds, whatever opacity and toggle events came before the call.
C17_VisualStatePreserved ==
    Reconfigured =>
        /\ getLayer(layers, CogLayer)
        /\ LayerOf(layers, CogLayer).paint
                = SetProp(NoProps, "raster-opacity", parseFloat(dom.cogOpacitySlider))
        /\ LayerOf(layers, CogLayer).layout
                = SetProp(NoProps, "visibility", Visibility(dom.cogToggle))

C17_Witness ==
    /\ Reconfigured
    /\ ~dom.cogToggle
    /\ LayerOf(layers, CogLayer).layout["visibility"] = "none"
    /\ LayerOf(layers, CogLayer).paint["raster-opacity"] # InitCogOpacity
    /\ LayerOf(layers, CogLayer).paint = LayerOf(before.layers, CogLayer).paint
    /\ LayerOf(before.layers, CogLayer).layout # NoProps

\* The dynamic pair as a whole: source local-cog and layer local-cog-layer.
PairPresent == getSource(sources, CogSource) /\ getLayer(layers, CogLayer)

\* C18: whenever no handler is running, that is at the start and at the end
\* of every handler, source local-cog and layer local-cog-layer are both
\* present, so the getLayer guards of the toggle and opacity handlers hold
\* whenever they are evaluated; a state without the layer, with or without
\* the source, occurs only inside a call of updateCogSource, between its
\* removeLayer and its addLayer.
C18_NoHalfAppliedState ==
    /\ pc = "idle" => PairPresent
    /\ ~PairPresent =>
          /\ pc \in {"removeSource", "addSource", "addLayer"}
          /\ Reconfiguring
          /\ IsPrefix(calls, ReconfigureCalls)

C18_Witness ==
    /\ pc = "addLayer"
    /\ Reconfiguring
    /\ getSource(sources, CogSource)
    /\ ~getLayer(layers, CogLayer)

\* The step is a keystroke in the rescale field other than Enter.
RescaleEditStep == pc = "idle" /\ lastEvent' = "cogRescale.edit"

\* C19: when a call of updateCogSource ends, whichever event made it, the
\* one tile URL of source local-cog is buildCogTileUrl of the values the
\* colormap selector and the rescale field held when the call was made (so a
\* colormap change also applies rescale text typed but not confirmed); typing
\* in the rescale field without apply or Enter leaves the sources, and so
\* the URL, as they were.
C19_UrlFollowsControls ==
    [][/\ (pc' = "idle" /\ lastEvent' \in UpdateEvents)
            => /\ getSource(sources', CogSource)
               /\ sources'[CogSource].tiles
                    = <<buildCogTileUrl([colormap |-> dom'.cogColormap,
                                         rescale |-> dom'.cogRescale])>>
       /\ (pc = "idle" /\ lastEvent' \in UpdateEvents)
            => /\ url' = buildCogTileUrl([colormap |-> dom'.cogColormap,
                                          rescale |-> dom'.cogRescale])
               /\ dom'.cogRescale = dom.cogRescale
       /\ pc # "idle" => (dom' = dom /\ url' = url)
       /\ RescaleEditStep
            => /\ dom'.cogRescale # dom.cogRescale
               /\ sources' = sources
               /\ layers' = layers
               /\ calls' = <<>>]_vars

C19_Witness ==
    /\ pc = "idle"
    /\ lastEvent = "cogColormap.change"
    /\ dom.cogRescale = <<"3", "0", ",", "9", "0">>
    /\ ValuesOf(sources[CogSource].tiles[1], RescaleName) = <<<<"3", "0", "%", "2", "C", "9", "0">>>>
    /\ ValuesOf(before.sources[CogSource].tiles[1], RescaleName) = <<<<"a", "b", "c">>>>


=============================================================================
